---- MODULE Spec2Model ----
(***************************************************************************)
(* A model of the artcube image enrichment pipeline                        *)
(* (src/enrich_dataset.py): the filename codec, the thumbnail-to-original  *)
(* resolver, the image locator cascade, and the download / transcode /     *)
(* store path.                                                             *)
(*                                                                         *)
(* Strings.  A URL is the sequence of its "/"-separated segments, so       *)
(* "https://h/a/b" is <<"https:", "", "h", "a", "b">> and the empty string *)
(* is <<"">>.  Python's None is the empty sequence << >>.  Substring       *)
(* tests whose needle holds no "/" are tests on single segments; needles   *)
(* of the form "/x/" are tests on interior segments.                       *)
(* A text handled by the filename codec is a sequence of one-character     *)
(* strings.                                                                *)
(***************************************************************************)
EXTENDS Integers, Sequences, FiniteSets, TLC

VARIABLES
    uPc,        \* resolver harness: "in", "once", "twice"
    uIn,        \* resolver harness: the URL given to _thumbnail_to_original
    uOut,       \* resolver harness: _thumbnail_to_original(uIn)
    uOut2,      \* resolver harness: _thumbnail_to_original(uOut)
    kPc,        \* key harness: "in", "done"
    kArt,       \* key harness: the art_piece record given to enrich_art_piece
    kKey,       \* key harness: outcome of lines 558-579 of enrich_art_piece
    lPc,        \* locator harness: "in", "done"
    lNet,       \* locator harness: the responses <<r1, r2, r3>> of the service
    lRes,       \* locator harness: what get_image_url did with them
    pil,        \* PIL_AVAILABLE, set when the module is imported
    files,      \* the image directory: path -> content
    pc,         \* where the driver is: "idle" between two artworks, a
                \* position inside enrich_art_piece / download_image, "aborted"
    calls,      \* enrich_art_piece calls that have returned
    cur,        \* base_filename of the artwork being processed
    reqs,       \* network requests issued by the current call
    loc,        \* what get_image_url returned to the current call
    body,       \* the image response being downloaded: format and size
    attempts,   \* _resize_image_if_needed: attempts
    quality,    \* _resize_image_if_needed: quality
    ret,        \* how the last enrich_art_piece call ended
    sPc,        \* pre-scale harness: "in" before, "done" after
    sIn,        \* the file size, the budget, max_dimension and the long edge
    sOut,       \* the long edge after the pre-scale
    bPc,        \* resize_images.py: position in resize_image_to_max_size
    bIn,        \* the stored image given to it: format and size
    bImg,       \* the content of the file at image_path
    bTmp,       \* the content of the file at image_path + '.tmp'
    bAtt,       \* resize_image_to_max_size: attempts
    bQ,         \* resize_image_to_max_size: quality
    bRet,        \* what it returned: "none" while it runs, "True", "False"
    tPc,        \* transcode loop harness: "open", "loop", "done", "failed"
    tIn,        \* the opened image: width, height and file size in MiB
    tW,         \* img.size[0]
    tH,         \* img.size[1]
    tAtt,       \* attempts
    tQ,         \* quality
    tK,         \* how many times img.save has encoded
    tUsed,      \* the quality the last encode used
    tLast,      \* new_size_mb of the last encode, in half MiB
    tEnc,       \* the dimensions the last encode wrote
    tShr,       \* whether the last failed attempt took the shrink branch
    tArg,        \* the last size tuple handed to img.resize, << >> before any
    cPc,        \* page scan harness: "in" before, "done" after
    cIn,        \* all_matches: what the two patterns found in the page
    cOut,        \* what the scan yields: a URL returned or falling through
    aPc,        \* enrich_with_ai.py main: "off", "loop", "called", "saving", "saved", "finished"
    aData,      \* dataset_complete.json: the number of artworks of each period
    aFile,      \* dataset_AI.json
    aMem,       \* enriched_dataset
    aPos,       \* which artwork the loops are at, counted over all periods
    aCalls,     \* how often the API was called for each artwork, over all runs
    aSaved,     \* the artworks that some completed save has written
    aRuns,      \* how many times main was started
    aMid,        \* whether some run ended within an artwork rather than between two
    gPc,        \* geocoding harness: "run" while the preprocessing run lasts
    gCache,     \* geocode_cache: for each stripped location whether it has an entry, and the entry
    gPrev,      \* the cache as it was before the last call
    gLast,      \* the last call: its argument, the stripped argument, what it returned, its requests
    gReqs,      \* geocoder requests issued so far
    gCalls      \* calls of geocode_location so far

uvars == <<uPc, uIn, uOut, uOut2>>
kvars == <<kPc, kArt, kKey>>
lvars == <<lPc, lNet, lRes>>
pvars == <<pil, files, pc, calls, cur, reqs, loc, body, attempts, quality, ret>>
svars == <<sPc, sIn, sOut>>
bvars == <<bPc, bIn, bImg, bTmp, bAtt, bQ, bRet>>
tvars == <<tPc, tIn, tW, tH, tAtt, tQ, tK, tUsed, tLast, tEnc, tShr, tArg>>
cvars == <<cPc, cIn, cOut>>
avars == <<aPc, aData, aFile, aMem, aPos, aCalls, aSaved, aRuns, aMid>>
gvars == <<gPc, gCache, gPrev, gLast, gReqs, gCalls>>

vars ==
    <<uPc, uIn, uOut, uOut2, kPc, kArt, kKey, lPc, lNet, lRes,
      pil, files, pc, calls, cur, reqs, loc, body, attempts, quality, ret,
      sPc, sIn, sOut, bPc, bIn, bImg, bTmp, bAtt, bQ, bRet,
      tPc, tIn, tW, tH, tAtt, tQ, tK, tUsed, tLast, tEnc, tShr, tArg,
      cPc, cIn, cOut,
      aPc, aData, aFile, aMem, aPos, aCalls, aSaved, aRuns, aMid,
      gPc, gCache, gPrev, gLast, gReqs, gCalls>>

NoneUrl == << >>
EmptyStr == <<"">>

(***************************************************************************)
(* Segment classes: which segments of the bounded alphabet hold a needle.  *)
(***************************************************************************)
UploadSegs == {"upload.wikimedia.org"}
WikipediaOrgSegs == {"en.wikipedia.org"}
ThumbWordSegs == {"thumb", "thumbs"}
PxSegs == {"300px-Foo.jpg", "300px-Foo.svg.png", "apx-Foo.jpg"}
SizeTailSegs == {"300px-Foo.jpg", "300px-Foo.svg.png"}
SvgSegs == {"Foo.svg", "300px-Foo.svg.png"}

\* needle in url, for a needle without "/"
HasSeg(url, S) == \E i \in 1..Len(url) : url[i] \in S

\* "/a/" in url
HasInner(url, a) == \E i \in 2..(Len(url) - 1) : url[i] = a

\* "/a/b/" in url
HasInner2(url, a, b) ==
    \E i \in 2..(Len(url) - 2) : url[i] = a /\ url[i + 1] = b

\* The non-overlapping occurrences of "/a/" that str.split and str.replace
\* find scanning left to right: an occurrence uses up both of its slashes.
RECURSIVE Occurrences(_, _, _)
Occurrences(url, a, i) ==
    IF i > Len(url) - 1 THEN {}
    ELSE IF url[i] = a THEN {i} \cup Occurrences(url, a, i + 2)
    ELSE Occurrences(url, a, i + 1)

\* url.replace("/a/", "/" + "/".join(repl) + "/"), repl possibly empty
RECURSIVE ReplaceFrom(_, _, _, _)
ReplaceFrom(url, occ, repl, i) ==
    IF i > Len(url) THEN << >>
    ELSE (IF i \in occ THEN repl ELSE <<url[i]>>)
         \o ReplaceFrom(url, occ, repl, i + 1)

ReplaceInner(url, a, repl) ==
    ReplaceFrom(url, Occurrences(url, a, 2), repl, 1)

Front(s) == SubSeq(s, 1, Len(s) - 1)

UploadBase == <<"https:", "", "upload.wikimedia.org", "wikipedia">>

\* re.sub(r'/\d+px-[^/]+$', '', url)
StripSizeTail(url) ==
    IF Len(url) >= 2 /\ url[Len(url)] \in SizeTailSegs THEN Front(url) ELSE url

\* Format 1 of _thumbnail_to_original; NoneUrl when no return is reached
Format1(url) ==
    LET occ == Occurrences(url, "thumb", 2) IN
    IF Cardinality(occ) # 1 THEN NoneUrl
    ELSE
        LET i == CHOOSE j \in occ : TRUE
            rest == SubSeq(url, i + 1, Len(url))
            original_path == IF Len(rest) >= 2 THEN Front(rest) ELSE rest
        IN  IF HasSeg(url, UploadSegs) THEN
                IF HasInner2(url, "commons", "thumb")
                THEN UploadBase \o <<"commons">> \o original_path
                ELSE IF HasInner2(url, "en", "thumb")
                THEN UploadBase \o <<"en">> \o original_path
                ELSE UploadBase \o <<"commons">> \o original_path
            ELSE IF HasSeg(url, WikipediaOrgSegs) THEN
                IF HasInner2(url, "commons", "thumb")
                THEN UploadBase \o <<"commons">> \o original_path
                ELSE IF HasInner2(url, "en", "thumb")
                THEN UploadBase \o <<"en">> \o original_path
                ELSE NoneUrl
            ELSE NoneUrl

\* Format 3 of _thumbnail_to_original
Format3(url) ==
    LET stripped == ReplaceInner(StripSizeTail(url), "thumb", << >>) IN
    IF HasInner(url, "commons") /\ ~HasInner(stripped, "commons")
    THEN ReplaceInner(stripped, "wikipedia", <<"wikipedia", "commons">>)
    ELSE IF HasInner(url, "en") /\ ~HasInner(stripped, "en")
            /\ ~HasInner(stripped, "commons")
    THEN ReplaceInner(stripped, "wikipedia", <<"wikipedia", "en">>)
    ELSE stripped

\* Mutant: Format 2 without its test of the hosting domain.
thumbnail_to_original_anyhost(thumbnail_url) ==
    IF thumbnail_url = NoneUrl \/ thumbnail_url = EmptyStr THEN NoneUrl
    ELSE IF HasInner(thumbnail_url, "thumb") /\ Format1(thumbnail_url) # NoneUrl
    THEN Format1(thumbnail_url)
    ELSE IF ~HasInner(thumbnail_url, "thumb")
    THEN thumbnail_url
    ELSE IF HasSeg(thumbnail_url, ThumbWordSegs) /\ HasSeg(thumbnail_url, PxSegs)
    THEN Format3(thumbnail_url)
    ELSE NoneUrl

thumbnail_to_original(thumbnail_url) ==
    IF thumbnail_url = NoneUrl \/ thumbnail_url = EmptyStr THEN NoneUrl
    ELSE IF HasInner(thumbnail_url, "thumb") /\ Format1(thumbnail_url) # NoneUrl
    THEN Format1(thumbnail_url)
    ELSE IF HasSeg(thumbnail_url, UploadSegs) /\ ~HasInner(thumbnail_url, "thumb")
    THEN thumbnail_url
    ELSE IF HasSeg(thumbnail_url, ThumbWordSegs) /\ HasSeg(thumbnail_url, PxSegs)
    THEN Format3(thumbnail_url)
    ELSE NoneUrl

is_svg_url(url) ==
    IF url = NoneUrl \/ url = EmptyStr THEN FALSE ELSE HasSeg(url, SvgSegs)

(***************************************************************************)
(* Image locator.  The three responses of the encyclopedia service are     *)
(* records:                                                                *)
(*   r1 (pageimages API)  status: "raise" (the request raises), "fail"     *)
(*      (status code not 200), "malformed" (reading the JSON raises), "ok";*)
(*      original / thumbnail: shape "absent", "nosrc" (a dict without      *)
(*      'source'), "dict" (a dict with 'source'), "str", and the URL;      *)
(*   r2 (summary endpoint) status "raise", "fail", "ok"; thumbnail as above*)
(*   r3 (rendered page)   status "raise", "fail", "ok"; what each pattern  *)
(*      of the page scan matches: infobox and content (a URL or NoneUrl),  *)
(*      scan and lazy (the lists of matches).                              *)
(* A stage yields kind "return" (with the URL), "continue" or "exc" (an    *)
(* exception leaves the stage).                                            *)
(***************************************************************************)
Return(u) == [kind |-> "return", url |-> u]
Continue == [kind |-> "continue", url |-> NoneUrl]
Exc == [kind |-> "exc", url |-> NoneUrl]

\* an acceptance test without the vector check
Accept_anyformat(original_url) == original_url # NoneUrl

\* lines 255, 263, 286, 302, 374, 391: original_url and not _is_svg_url(...)
Accept(original_url) == original_url # NoneUrl /\ ~is_svg_url(original_url)

\* lines 280-283: '//...' gets 'https:', '/...' gets 'https://en.wikipedia.org'
Absolutize(img_src) ==
    IF Len(img_src) >= 3 /\ img_src[1] = "" /\ img_src[2] = ""
    THEN <<"https:">> \o Tail(img_src)
    ELSE IF Len(img_src) >= 2 /\ img_src[1] = ""
    THEN <<"https:", "", "en.wikipedia.org">> \o Tail(img_src)
    ELSE img_src

\* lines 383-384: a URL that does not start with 'http'
AbsolutizeLazy(url) ==
    IF url[1] \in {"https:", "http:"} THEN url
    ELSE IF Len(url) >= 3 /\ url[1] = "" /\ url[2] = ""
    THEN <<"https:">> \o Tail(url)
    ELSE <<"https:", "", "en.wikipedia.org">> \o Tail(url)

\* Method 1, lines 230-256
Method1(r1) ==
    IF r1.status = "raise" \/ r1.status = "malformed" THEN Exc
    ELSE IF r1.status = "fail" THEN Continue
    ELSE IF r1.original.shape \in {"dict", "str"} /\ ~is_svg_url(r1.original.url)
    THEN Return(r1.original.url)
    ELSE IF r1.thumbnail.shape = "dict"
            /\ Accept(thumbnail_to_original(r1.thumbnail.url))
    THEN Return(thumbnail_to_original(r1.thumbnail.url))
    ELSE Continue

\* get_page_summary, lines 80-90: None unless the status is 200
get_page_summary(r2) == IF r2.status = "ok" THEN r2 ELSE [r2 EXCEPT !.status = "none"]

\* Method 2, lines 259-264
Method2(r2) ==
    LET summary == get_page_summary(r2) IN
    IF summary.status = "none" \/ summary.thumbnail.shape = "absent" THEN Continue
    ELSE IF summary.thumbnail.shape = "nosrc" THEN Exc
    ELSE IF Accept(thumbnail_to_original(summary.thumbnail.url))
    THEN Return(thumbnail_to_original(summary.thumbnail.url))
    ELSE Continue

\* lines 276-287: the infobox image
PageInfobox(r3) ==
    IF r3.infobox # NoneUrl
       /\ Accept(thumbnail_to_original(Absolutize(r3.infobox)))
    THEN Return(thumbnail_to_original(Absolutize(r3.infobox)))
    ELSE Continue

\* lines 291-303: the first image of the content area, hosting domain only
PageContent(r3) ==
    IF r3.content # NoneUrl
       /\ HasSeg(Absolutize(r3.content), UploadSegs)
       /\ Accept(thumbnail_to_original(Absolutize(r3.content)))
    THEN Return(thumbnail_to_original(Absolutize(r3.content)))
    ELSE Continue

\* lines 340-354: first occurrences, in order
RECURSIVE Unique(_)
Unique(matches) ==
    IF matches = << >> THEN << >>
    ELSE LET rest == Unique(Front(matches))
             last == matches[Len(matches)]
         IN  IF \E i \in 1..Len(rest) : rest[i] = last
             THEN rest ELSE Append(rest, last)

\* the first element of a sequence satisfying Test, as a stage outcome
FirstOf(urls, Test(_), Out(_)) ==
    LET hits == {i \in 1..Len(urls) : Test(urls[i])} IN
    IF hits = {} THEN Continue
    ELSE Return(Out(urls[CHOOSE i \in hits : \A j \in hits : i <= j]))

\* urllib.parse.unquote on the segments of the bounded alphabet that hold a
\* percent escape
Decoded ==
    ("Where%3F.jpg" :> "Where?.jpg") @@ ("Hash%23tag.png" :> "Hash#tag.png")

unquote(url) ==
    [i \in 1..Len(url) |-> IF url[i] \in DOMAIN Decoded THEN Decoded[url[i]] ELSE url[i]]

\* what str.split('?')[0] and str.split('#')[0] keep of a segment that holds
\* the separator
BeforeQuestion == ("Where?.jpg" :> "Where") @@ ("Foo.jpg?src=a.png" :> "Foo.jpg")
BeforeHash == "Hash#tag.png" :> "Hash"

\* url.split(sep)[0]: the text before the first separator
SplitFirst(url, Before) ==
    LET hits == {i \in 1..Len(url) : url[i] \in DOMAIN Before} IN
    IF hits = {} THEN url
    ELSE LET i == CHOOSE j \in hits : \A k \in hits : j <= k
         IN  SubSeq(url, 1, i - 1) \o <<Before[url[i]]>>

\* lines 343-350: decoded, then cut at the first '?' and the first '#'
Normalized(url) == SplitFirst(SplitFirst(unquote(url), BeforeQuestion), BeforeHash)

\* lines 340-375: de-duplication and choice among the matches of the scan
ScanChoice(all_matches) ==
    LET unique_matches ==
            Unique([i \in 1..Len(all_matches) |-> Normalized(all_matches[i])])
        Same(u) == u
        commons ==
            FirstOf(unique_matches,
                    LAMBDA u : ~HasInner(u, "thumb") /\ ~is_svg_url(u)
                               /\ HasInner(u, "commons"),
                    Same)
        plain ==
            FirstOf(unique_matches,
                    LAMBDA u : ~HasInner(u, "thumb") /\ ~is_svg_url(u), Same)
        thumbs ==
            FirstOf(unique_matches,
                    LAMBDA u : Accept(thumbnail_to_original(u)),
                    thumbnail_to_original)
    IN  IF commons.kind = "return" THEN commons
        ELSE IF plain.kind = "return" THEN plain
        ELSE thumbs

\* lines 327-375: the hosting-domain scan
PageScan(r3) == ScanChoice(r3.scan)

\* lines 379-392: lazily loaded images
PageLazy(r3) ==
    LET urls == [i \in 1..Len(r3.lazy) |-> AbsolutizeLazy(r3.lazy[i])] IN
    FirstOf(urls,
            LAMBDA u : ~is_svg_url(u)
                       /\ (~HasInner(u, "thumb") \/ Accept(thumbnail_to_original(u))),
            LAMBDA u : IF ~HasInner(u, "thumb") THEN u
                       ELSE thumbnail_to_original(u))

\* Methods 3 to 5, lines 267-394: the inner try swallows every exception
Method3(r3) ==
    IF r3.status # "ok" THEN Continue
    ELSE IF PageInfobox(r3).kind = "return" THEN PageInfobox(r3)
    ELSE IF PageContent(r3).kind = "return" THEN PageContent(r3)
    ELSE IF PageScan(r3).kind = "return" THEN PageScan(r3)
    ELSE PageLazy(r3)

\* The body of the outer try of get_image_url: the outcome, the URL and the
\* number of requests issued.
get_image_url_body(r1, r2, r3) ==
    LET m1 == Method1(r1)
        m2 == Method2(r2)
        m3 == Method3(r3)
    IN  IF m1.kind # "continue"
        THEN [kind |-> m1.kind, url |-> m1.url, reqs |-> 1]
        ELSE IF m2.kind # "continue"
        THEN [kind |-> m2.kind, url |-> m2.url, reqs |-> 2]
        ELSE [kind |-> "return", url |-> m3.url, reqs |-> 3]

\* an outer handler that lets the exception through
OuterExcept_reraise(b) ==
    IF b.kind = "exc"
    THEN [raised |-> TRUE, logged |-> TRUE, url |-> NoneUrl, reqs |-> b.reqs]
    ELSE [raised |-> FALSE, logged |-> FALSE, url |-> b.url, reqs |-> b.reqs]

\* lines 216, 397-399: the try/except around the whole body
\* (logged: the handler printed "Error getting image URL")
OuterExcept(b) ==
    IF b.kind = "exc"
    THEN [raised |-> FALSE, logged |-> TRUE, url |-> NoneUrl, reqs |-> b.reqs]
    ELSE [raised |-> FALSE, logged |-> FALSE, url |-> b.url, reqs |-> b.reqs]

get_image_url(r1, r2, r3) == OuterExcept(get_image_url_body(r1, r2, r3))

(***************************************************************************)
(* Filename codec.  A text is a sequence of one-character strings.         *)
(***************************************************************************)
ForbiddenChars == {"<", ">", ":", "\"", "/", "\\", "|", "?", "*"}
WhitespaceChars == {" ", "\t", "\n"}
MaxFilenameLen == 200

\* re.sub(cls + '+', repl, text): every maximal run of characters of cls
\* becomes the single character repl
CollapseRuns(text, cls, repl) ==
    LET idx == [i \in 1..Len(text) |-> i]
        kept == SelectSeq(idx, LAMBDA i :
                    text[i] \notin cls \/ i = 1 \/ text[i - 1] \notin cls)
    IN  [j \in 1..Len(kept) |->
            IF text[kept[j]] \in cls THEN repl ELSE text[kept[j]]]

\* text.strip('_')
StripUnderscores(text) ==
    LET keep == {i \in 1..Len(text) : text[i] # "_"} IN
    IF keep = {} THEN << >>
    ELSE LET lo == CHOOSE i \in keep : \A j \in keep : i <= j
             hi == CHOOSE i \in keep : \A j \in keep : i >= j
         IN  SubSeq(text, lo, hi)

sanitize_filename(text) ==
    LET t == StripUnderscores(
                CollapseRuns(
                    CollapseRuns(
                        SelectSeq(text, LAMBDA c : c \notin ForbiddenChars),
                        WhitespaceChars, "_"),
                    {"_"}, "_"))
    IN  IF Len(t) > MaxFilenameLen THEN SubSeq(t, 1, MaxFilenameLen) ELSE t

\* A field of an art_piece record: absent from the dict, None, or a text.
Missing == [tag |-> "missing", s |-> << >>]
Null == [tag |-> "null", s |-> << >>]
Str(t) == [tag |-> "str", s |-> t]
Unknown == <<"U", "n", "k", "n", "o", "w", "n">>

\* Lines 558-579 of enrich_art_piece: art_piece['title'] raises KeyError for
\* an absent title, art_piece.get('artist', 'Unknown') defaults an absent
\* artist only, and sanitize_filename(None) raises TypeError in re.sub.
base_filename(art_piece) ==
    IF art_piece.title.tag = "missing"
    THEN [raised |-> TRUE, key |-> << >>]
    ELSE LET artist == IF art_piece.artist.tag = "missing"
                       THEN Str(Unknown) ELSE art_piece.artist
         IN  IF artist.tag = "null" \/ art_piece.title.tag = "null"
             THEN [raised |-> TRUE, key |-> << >>]
             ELSE [raised |-> FALSE,
                   key |-> sanitize_filename(artist.s) \o <<"_">>
                           \o sanitize_filename(art_piece.title.s)]

(***************************************************************************)
(* Resolver harness: the URL is drawn from a bounded set of URLs built     *)
(* from a host prefix, up to MaxHead namespace / marker segments, the two  *)
(* hash segments, and a file part; _thumbnail_to_original is applied to    *)
(* it, and then to its own output.                                         *)
(***************************************************************************)
MaxHead == 3

UrlPrefixes ==
    { UploadBase,
      <<"https:", "", "en.wikipedia.org", "static">>,
      <<"https:", "", "example.com">> }
HeadSegs == {"commons", "en", "thumb", "wikipedia", "thumbs"}
Heads == UNION { [1..n -> HeadSegs] : n \in 0..MaxHead }
HashParts == { << >>, <<"a", "ab">> }
FileParts ==
    { << >>, <<"Foo.jpg">>, <<"Foo.jpg", "300px-Foo.jpg">>, <<"300px-Foo.jpg">>,
      <<"Foo.svg", "300px-Foo.svg.png">>, <<"apx-Foo.jpg">>, <<"">> }
UrlInputs ==
    { p \o h \o x \o f :
        p \in UrlPrefixes, h \in Heads, x \in HashParts, f \in FileParts }
    \cup {NoneUrl, EmptyStr}

InitUrlIdle ==
    /\ uPc = "in"
    /\ uIn = NoneUrl
    /\ uOut = NoneUrl
    /\ uOut2 = NoneUrl

InitUrl ==
    /\ uPc = "in"
    /\ uIn \in UrlInputs
    /\ uOut = NoneUrl
    /\ uOut2 = NoneUrl

Resolve ==
    /\ uPc = "in"
    /\ uOut' = thumbnail_to_original(uIn)
    /\ uPc' = "once"
    /\ UNCHANGED <<uIn, uOut2>>

ResolveAgain ==
    /\ uPc = "once"
    /\ uOut2' = thumbnail_to_original(uOut)
    /\ uPc' = "twice"
    /\ UNCHANGED <<uIn, uOut>>

(***************************************************************************)
(* Key harness: the record is drawn from a bounded set whose texts are     *)
(* made of up to MaxBlocks blocks, a block being one character repeated;   *)
(* the key derivation of enrich_art_piece is applied to it.                *)
(***************************************************************************)
MaxBlocks == 2

BlockChars == {"a", " ", "_", "/"}
BlockLens == {1, 120}
Blocks == { [i \in 1..n |-> c] : c \in BlockChars, n \in BlockLens }
RECURSIVE TextsOf(_)
TextsOf(n) ==
    IF n = 0 THEN { << >> }
    ELSE TextsOf(n - 1) \cup { t \o b : t \in TextsOf(n - 1), b \in Blocks }
Texts == TextsOf(MaxBlocks)
Fields == {Missing, Null} \cup { Str(t) : t \in Texts }

InitKeyIdle ==
    /\ kPc = "in"
    /\ kArt = [artist |-> Missing, title |-> Missing]
    /\ kKey = [raised |-> FALSE, key |-> << >>]

InitKey ==
    /\ kPc = "in"
    /\ kArt \in [artist : Fields, title : Fields]
    /\ kKey = [raised |-> FALSE, key |-> << >>]

DeriveKey ==
    /\ kPc = "in"
    /\ kKey' = base_filename(kArt)
    /\ kPc' = "done"
    /\ UNCHANGED kArt

(***************************************************************************)
(* Locator harness: the three responses are drawn from bounded sets and    *)
(* get_image_url is applied to them.                                       *)
(***************************************************************************)
MaxScan == 2

UOrig == UploadBase \o <<"commons", "a", "ab", "Foo.jpg">>
UEnOrig == UploadBase \o <<"en", "a", "ab", "Foo.jpg">>
UThumb == UploadBase \o <<"commons", "thumb", "a", "ab", "Foo.jpg", "300px-Foo.jpg">>
USvg == UploadBase \o <<"commons", "a", "ab", "Foo.svg">>
USvgThumb ==
    UploadBase \o <<"commons", "thumb", "a", "ab", "Foo.svg", "300px-Foo.svg.png">>
URelThumb ==
    <<"", "", "upload.wikimedia.org", "wikipedia", "commons", "thumb", "a", "ab",
      "Foo.jpg", "300px-Foo.jpg">>
USvgRaster == UploadBase \o <<"commons", "a", "ab", "300px-Foo.svg.png">>
UInnerThumb ==
    UploadBase \o <<"commons", "a", "ab", "thumb", "Foo.jpg", "300px-Foo.jpg">>
UStatic == <<"", "static", "images", "icon.png">>

Field(shape, u) == [shape |-> shape, url |-> u]
NoField == Field("absent", NoneUrl)
NoSrc == Field("nosrc", NoneUrl)

Originals ==
    {NoField, NoSrc, Field("str", UOrig)}
    \cup { Field("dict", u) : u \in {UOrig, UThumb, USvg} }
Thumbnails == {NoField, NoSrc} \cup { Field("dict", u) : u \in {UThumb, USvgThumb} }

R1Fail(st) == [status |-> st, original |-> NoField, thumbnail |-> NoField]
Responses1 ==
    { R1Fail(st) : st \in {"raise", "fail", "malformed"} }
    \cup [status : {"ok"}, original : Originals, thumbnail : Thumbnails]

R2Fail(st) == [status |-> st, thumbnail |-> NoField]
Responses2 ==
    { R2Fail(st) : st \in {"raise", "fail"} }
    \cup [status : {"ok"}, thumbnail : Thumbnails]

SeqsUpTo(S, n) == UNION { [1..k -> S] : k \in 0..n }
R3Fail(st) ==
    [status |-> st, infobox |-> NoneUrl, content |-> NoneUrl,
     scan |-> << >>, lazy |-> << >>]
Responses3 ==
    { R3Fail(st) : st \in {"raise", "fail"} }
    \cup [status : {"ok"},
          infobox : {NoneUrl, URelThumb, UStatic, USvg},
          content : {NoneUrl, UOrig, UStatic},
          scan : SeqsUpTo({UOrig, UEnOrig, UInnerThumb, USvgRaster}, MaxScan),
          lazy : SeqsUpTo({URelThumb, UOrig, USvg}, 1)]

LocateIdle == [raised |-> FALSE, logged |-> FALSE, url |-> NoneUrl, reqs |-> 0]

InitLocateIdle ==
    /\ lPc = "in"
    /\ lNet = <<R1Fail("fail"), R2Fail("fail"), R3Fail("fail")>>
    /\ lRes = LocateIdle

InitLocate ==
    /\ lPc = "in"
    /\ lNet \in Responses1 \X Responses2 \X Responses3
    /\ lRes = LocateIdle

Locate ==
    /\ lPc = "in"
    /\ lRes' = get_image_url(lNet[1], lNet[2], lNet[3])
    /\ lPc' = "done"
    /\ UNCHANGED lNet

(***************************************************************************)
(* Image store, download and transcoding.  A file content is a record:     *)
(* kind "absent", "pre" (a file that was there before the run), "raw" (the *)
(* downloaded bytes) or "enc" (a JPEG written by img.save); full is FALSE  *)
(* while the file is being written.  Sizes are in units of half a MiB.     *)
(***************************************************************************)
MaxCalls == 2

Exts == <<".jpg", ".jpeg", ".png", ".webp", ".gif">>
TmpExt == ".jpg.tmp"
Budget == 2
MaxAttempts == 20
StartQuality == 85
MinQuality == 50
QualityStep == 5

Absent == [kind |-> "absent", fmt |-> "", size |-> 0, full |-> FALSE, q |-> 0]
Pre == [kind |-> "pre", fmt |-> "", size |-> 1, full |-> TRUE, q |-> 0]
Raw(b, full) ==
    [kind |-> "raw", fmt |-> b.fmt, size |-> IF full THEN b.size ELSE 0,
     full |-> full, q |-> 0]
Enc(qu, size, full) ==
    [kind |-> "enc", fmt |-> "jpeg", size |-> size, full |-> full, q |-> qu]

Catalog ==
    { [artist |-> Str(<<"A">>), title |-> Str(<<"T", " ", "1">>)],
      [artist |-> Missing, title |-> Str(<<"T", "/", "2">>)],
      [artist |-> Str(<<"A">>), title |-> Missing] }
Keys == { base_filename(a).key : a \in {c \in Catalog : ~base_filename(c).raised} }
Path(key, ext) == <<key, ext>>
Paths == Keys \X ({Exts[i] : i \in 1..Len(Exts)} \cup {TmpExt})
NoFile == << >>
NoBody == [fmt |-> "", size |-> 0]

\* an existence check that probes the canonical extension alone
ExistingImage_jpgonly(fs, key) ==
    IF fs[Path(key, Exts[1])] # Absent THEN 1 ELSE 0

\* an existence check that reports the last extension present
ExistingImage_last(fs, key) ==
    LET found == {i \in 1..Len(Exts) : fs[Path(key, Exts[i])] # Absent} IN
    IF found = {} THEN 0 ELSE CHOOSE i \in found : \A j \in found : i >= j

\* lines 584-592: the index of the first extension, in order, under which a
\* file of the key exists; 0 when there is none
ExistingImage(fs, key) ==
    LET found == {i \in 1..Len(Exts) : fs[Path(key, Exts[i])] # Absent} IN
    IF found = {} THEN 0 ELSE CHOOSE i \in found : \A j \in found : i <= j

\* os.rename(temp_path, filepath)
Rename(fs, key) ==
    [fs EXCEPT ![Path(key, ".jpg")] = fs[Path(key, TmpExt)],
               ![Path(key, TmpExt)] = Absent]

\* lines 479-481, and lines 553-554: remove the temp file if it exists
RemoveTemp(fs, key) == [fs EXCEPT ![Path(key, TmpExt)] = Absent]

\* search_wikipedia, lines 53-78: found or not, after one or two requests
SearchOutcomes == [found : BOOLEAN, reqs : {1, 2}]

\* what get_image_url can return, over every combination of responses
LocateOutcomes ==
    { get_image_url(r1, r2, r3) :
        r1 \in Responses1, r2 \in Responses2, r3 \in Responses3 }

\* the responses of the image host: format and size of the bytes
Bodies == [fmt : {"jpeg", "png", "bad"}, size : {Budget, Budget + 1}]
EncSizes == {Budget, Budget + 1}

\* enrich_art_piece returns (or raises): the locals are gone
Finish(state, image, via) ==
    /\ ret' = [state |-> state, image |-> image, via |-> via]
    /\ pc' = IF state = "raised" THEN "aborted" ELSE "idle"
    /\ calls' = calls + 1
    /\ body' = NoBody
    /\ attempts' = 0
    /\ quality' = 0

\* lines 556-620: key derivation, the existence check, the article search,
\* the summary and the infobox requests
EnrichBegin ==
    /\ pc = "idle"
    /\ calls < MaxCalls
    /\ \E art \in Catalog, search \in SearchOutcomes, summary \in BOOLEAN :
        LET k == base_filename(art)
            ext == ExistingImage(files, k.key)
        IN  IF k.raised
            THEN /\ Finish("raised", NoFile, "key")
                 /\ cur' = << >>
                 /\ reqs' = 0
            ELSE IF ext # 0
            THEN /\ Finish("returned", Path(k.key, Exts[ext]), "hit")
                 /\ cur' = k.key
                 /\ reqs' = 0
            ELSE IF ~search.found
            THEN /\ Finish("returned", NoFile, "notfound")
                 /\ cur' = k.key
                 /\ reqs' = search.reqs
            ELSE /\ pc' = "locate"
                 /\ cur' = k.key
                 /\ reqs' = search.reqs + 1 + (IF summary THEN 1 ELSE 0)
                 /\ ret' = [state |-> "running", image |-> NoFile, via |-> ""]
                 /\ UNCHANGED <<calls, body, attempts, quality>>
    /\ loc' = LocateIdle
    /\ UNCHANGED <<pil, files>>

\* line 623
LocateImage ==
    /\ pc = "locate"
    /\ \E out \in LocateOutcomes :
        /\ loc' = out
        /\ reqs' = reqs + out.reqs
    /\ pc' = "store"
    /\ UNCHANGED <<pil, files, calls, cur, body, attempts, quality, ret>>

\* lines 624-657, up to the call of download_image
StoreImage ==
    /\ pc = "store"
    /\ IF loc.raised
       THEN Finish("raised", NoFile, "locate")
       ELSE IF loc.url = NoneUrl
       THEN Finish("returned", NoFile, "noimage")
       ELSE IF ExistingImage(files, cur) # 0
       THEN Finish("returned", Path(cur, Exts[ExistingImage(files, cur)]), "exists")
       ELSE /\ pc' = "dl_get"
            /\ UNCHANGED <<calls, body, attempts, quality, ret>>
    /\ UNCHANGED <<pil, files, cur, reqs, loc>>

\* line 452 raises; the handler of lines 476-482 removes the temp file
DownloadRaise ==
    /\ pc = "dl_get"
    /\ reqs' = reqs + 1
    /\ files' = RemoveTemp(files, cur)
    /\ Finish("returned", NoFile, "dlfailed")
    /\ UNCHANGED <<pil, cur, loc>>

\* lines 453, 475: a status code other than 200
DownloadBadStatus ==
    /\ pc = "dl_get"
    /\ reqs' = reqs + 1
    /\ Finish("returned", NoFile, "dlfailed")
    /\ UNCHANGED <<pil, files, cur, loc>>

\* lines 453-458: status 200, the temp file is opened for writing
DownloadOpen ==
    /\ pc = "dl_get"
    /\ reqs' = reqs + 1
    /\ \E b \in Bodies :
        /\ body' = b
        /\ files' = [files EXCEPT ![Path(cur, TmpExt)] = Raw(b, FALSE)]
    /\ pc' = "dl_stream"
    /\ UNCHANGED <<pil, calls, cur, loc, attempts, quality, ret>>

\* lines 459-460: the last chunk is written and the file closed
DownloadStream ==
    /\ pc = "dl_stream"
    /\ files' = [files EXCEPT ![Path(cur, TmpExt)] = Raw(body, TRUE)]
    /\ pc' = IF pil THEN "rs_size" ELSE "dl_rename"
    /\ UNCHANGED <<pil, calls, cur, reqs, loc, body, attempts, quality, ret>>

\* lines 459-460 raise (the connection drops, the disk is full)
DownloadStreamFail ==
    /\ pc = "dl_stream"
    /\ files' = RemoveTemp(files, cur)
    /\ Finish("returned", NoFile, "dlfailed")
    /\ UNCHANGED <<pil, cur, reqs, loc>>

\* line 472: without PIL the downloaded file is renamed into place
DownloadRenameNoPil ==
    /\ pc = "dl_rename"
    /\ files' = Rename(files, cur)
    /\ Finish("returned", Path(cur, ".jpg"), "nopil")
    /\ UNCHANGED <<pil, cur, reqs, loc>>

\* lines 489-494: the download is within the budget and is renamed
ResizeSmall ==
    /\ pc = "rs_size"
    /\ files[Path(cur, TmpExt)].size <= Budget
    /\ files' = Rename(files, cur)
    /\ Finish("returned", Path(cur, ".jpg"), "small")
    /\ UNCHANGED <<pil, cur, reqs, loc>>

\* lines 496-535: the image is decoded, converted and pre-scaled
ResizeOpen ==
    /\ pc = "rs_size"
    /\ files[Path(cur, TmpExt)].size > Budget
    /\ body.fmt # "bad"
    /\ attempts' = 0
    /\ quality' = StartQuality
    /\ pc' = "rs_save"
    /\ UNCHANGED <<pil, files, calls, cur, reqs, loc, body, ret>>

\* line 499: the bytes are no decodable image
ResizeOpenFail ==
    /\ pc = "rs_size"
    /\ files[Path(cur, TmpExt)].size > Budget
    /\ body.fmt = "bad"
    /\ pc' = "dl_fallback"
    /\ UNCHANGED <<pil, files, calls, cur, reqs, loc, body, attempts, quality, ret>>

\* line 538: img.save opens output_path and starts writing
ResizeSaveBegin ==
    /\ pc = "rs_save"
    /\ attempts < MaxAttempts
    /\ files' = [files EXCEPT ![Path(cur, ".jpg")] = Enc(quality, 0, FALSE)]
    /\ pc' = "rs_saving"
    /\ UNCHANGED <<pil, calls, cur, reqs, loc, body, attempts, quality, ret>>

\* a loop that goes on encoding although the budget is met
ResizeSaveEnd_nobreak ==
    /\ pc = "rs_saving"
    /\ \E size \in EncSizes :
        /\ files' = [files EXCEPT ![Path(cur, ".jpg")] = Enc(quality, size, TRUE)]
        /\ quality' = IF quality - QualityStep > MinQuality
                       THEN quality - QualityStep ELSE MinQuality
        /\ attempts' = attempts + 1
        /\ pc' = IF attempts + 1 < MaxAttempts THEN "rs_save" ELSE "rs_remove"
    /\ UNCHANGED <<pil, calls, cur, reqs, loc, body, ret>>

\* lines 538-550: img.save completes, the size is measured
ResizeSaveEnd ==
    /\ pc = "rs_saving"
    /\ \E size \in EncSizes :
        /\ files' = [files EXCEPT ![Path(cur, ".jpg")] = Enc(quality, size, TRUE)]
        /\ IF size <= Budget
           THEN /\ pc' = "rs_remove"
                /\ UNCHANGED <<attempts, quality>>
           ELSE /\ quality' = IF quality - QualityStep > MinQuality
                              THEN quality - QualityStep ELSE MinQuality
                /\ attempts' = attempts + 1
                /\ pc' = IF attempts + 1 < MaxAttempts THEN "rs_save" ELSE "rs_remove"
    /\ UNCHANGED <<pil, calls, cur, reqs, loc, body, ret>>

\* line 538 raises while writing; caught at line 466
ResizeSaveFail ==
    /\ pc = "rs_saving"
    /\ pc' = "dl_fallback"
    /\ UNCHANGED <<pil, files, calls, cur, reqs, loc, body, attempts, quality, ret>>

\* lines 552-554, then lines 474 and 649-651
ResizeRemove ==
    /\ pc = "rs_remove"
    /\ files' = RemoveTemp(files, cur)
    /\ Finish("returned", Path(cur, ".jpg"), "encoded")
    /\ UNCHANGED <<pil, cur, reqs, loc>>

\* a fallback that reports success without renaming the download
DownloadFallback_norename ==
    /\ pc = "dl_fallback"
    /\ files' = files
    /\ Finish("returned", Path(cur, ".jpg"), "fallback")
    /\ UNCHANGED <<pil, cur, reqs, loc>>

\* lines 466-469: the downloaded file is used as it is
DownloadFallback ==
    /\ pc = "dl_fallback"
    /\ IF files[Path(cur, TmpExt)] # Absent
       THEN /\ files' = Rename(files, cur)
            /\ Finish("returned", Path(cur, ".jpg"), "fallback")
       ELSE /\ files' = files
            /\ Finish("returned", NoFile, "dlfailed")
    /\ UNCHANGED <<pil, cur, reqs, loc>>

\* os.rename raises at line 469 or 472; the handler of lines 476-482
DownloadRenameFail ==
    /\ pc \in {"dl_rename", "dl_fallback"}
    /\ files' = RemoveTemp(files, cur)
    /\ Finish("returned", NoFile, "dlfailed")
    /\ UNCHANGED <<pil, cur, reqs, loc>>

\* lines 476-481 after a fault that left the temp file behind: os.remove
\* raises too (the disk went read-only, the file is locked); nothing catches
\* the exception in download_image, enrich_art_piece or main
DownloadCleanupFail ==
    /\ pc \in {"dl_stream", "dl_rename", "dl_fallback"}
    /\ files[Path(cur, TmpExt)] # Absent
    /\ Finish("raised", NoFile, "cleanup")
    /\ UNCHANGED <<pil, files, cur, reqs, loc>>

\* The run is stopped (killed, power loss) while an artwork is processed,
\* and main() is started again: the image directory is as the stopped run
\* left it, the locals are gone.
Interrupt ==
    /\ pc \notin {"idle", "aborted"}
    /\ ret' = [state |-> "killed", image |-> NoFile, via |-> ""]
    /\ pc' = "idle"
    /\ calls' = calls + 1
    /\ loc' = LocateIdle
    /\ body' = NoBody
    /\ attempts' = 0
    /\ quality' = 0
    /\ UNCHANGED <<pil, files, cur, reqs>>

(***************************************************************************)
(* Pre-scale of the transcoder, lines 496-531 (and resize_images.py lines  *)
(* 50-72).  Sizes and budgets are in MiB, edges in pixels; only the long   *)
(* edge max(width, height) is kept.                                        *)
(***************************************************************************)
AggressiveSizeMb == 10
AggressiveMaxDim == 1200
DefaultMaxDimension == 2000

\* lines 514-531: the long edge of the image that enters the quality loop
PreScale(current_size_mb, max_size_mb, max_dimension, long_edge) ==
    IF current_size_mb > AggressiveSizeMb
    THEN IF long_edge > AggressiveMaxDim THEN AggressiveMaxDim ELSE long_edge
    ELSE IF long_edge > max_dimension THEN max_dimension ELSE long_edge

MaxSizeMb == 25
MaxBudgetMb == 2
Edges == {1000, 1200, 1201, 1500, 2000, 2001, 6000}
MaxDimensions == {1500, DefaultMaxDimension}

\* line 491: the pre-scale is reached only by a file above the budget
ScaleInputs ==
    { in \in [size : 1..MaxSizeMb, budget : 1..MaxBudgetMb,
              max_dimension : MaxDimensions, edge : Edges] :
        in.size > in.budget }

InitScaleIdle ==
    /\ sPc = "in"
    /\ sIn = [size |-> 2, budget |-> 1, max_dimension |-> DefaultMaxDimension,
              edge |-> 1000]
    /\ sOut = 0

InitScale ==
    /\ sPc = "in"
    /\ sIn \in ScaleInputs
    /\ sOut = 0

Scale ==
    /\ sPc = "in"
    /\ sOut' = PreScale(sIn.size, sIn.budget, sIn.max_dimension, sIn.edge)
    /\ sPc' = "done"
    /\ UNCHANGED sIn

(***************************************************************************)
(* Batch resizer, resize_images.py: resize_image_to_max_size applied to    *)
(* one stored image.  The file contents are records as in the image store; *)
(* an encode also carries its number n in the loop.                        *)
(***************************************************************************)
Orig(in) ==
    [kind |-> "orig", n |-> 0, fmt |-> in.fmt, size |-> in.size,
     full |-> TRUE, q |-> 0]
NthEnc(n, qu, size, full) ==
    [kind |-> "enc", n |-> n, fmt |-> "jpeg", size |-> size, full |-> full,
     q |-> qu]
NoTemp ==
    [kind |-> "absent", n |-> 0, fmt |-> "", size |-> 0, full |-> FALSE,
     q |-> 0]

\* the stored images main() finds: format and size
BatchInputs == [fmt : {"jpeg", "png", "bad"}, size : {Budget, Budget + 1}]

InitBatchIdle ==
    /\ bPc = "start"
    /\ bIn = [fmt |-> "jpeg", size |-> Budget]
    /\ bImg = Orig(bIn)
    /\ bTmp = NoTemp
    /\ bAtt = 0
    /\ bQ = 0
    /\ bRet = "none"

InitBatch ==
    /\ bPc = "start"
    /\ bIn \in BatchInputs
    /\ bImg = Orig(bIn)
    /\ bTmp = NoTemp
    /\ bAtt = 0
    /\ bQ = 0
    /\ bRet = "none"

\* lines 22-26: within the budget, nothing is done
BatchSmall ==
    /\ bPc = "start"
    /\ bImg.size <= Budget
    /\ bRet' = "False"
    /\ bPc' = "returned"
    /\ UNCHANGED <<bIn, bImg, bTmp, bAtt, bQ>>

\* lines 31-77: the image is decoded, converted and pre-scaled
BatchOpen ==
    /\ bPc = "start"
    /\ bImg.size > Budget
    /\ bIn.fmt # "bad"
    /\ bAtt' = 0
    /\ bQ' = StartQuality
    /\ bPc' = "save"
    /\ UNCHANGED <<bIn, bImg, bTmp, bRet>>

\* line 31 raises: the bytes are no decodable image
BatchOpenFail ==
    /\ bPc = "start"
    /\ bImg.size > Budget
    /\ bIn.fmt = "bad"
    /\ bPc' = "handler"
    /\ UNCHANGED <<bIn, bImg, bTmp, bAtt, bQ, bRet>>

\* an encode written straight to the image path
BatchSaveBegin_inplace ==
    /\ bPc = "save"
    /\ bAtt < MaxAttempts
    /\ bImg' = NthEnc(bAtt + 1, bQ, 0, FALSE)
    /\ bTmp' = NthEnc(bAtt + 1, bQ, 0, FALSE)
    /\ bPc' = "saving"
    /\ UNCHANGED <<bIn, bAtt, bQ, bRet>>

\* line 80: img.save opens temp_path and starts writing
BatchSaveBegin ==
    /\ bPc = "save"
    /\ bAtt < MaxAttempts
    /\ bTmp' = NthEnc(bAtt + 1, bQ, 0, FALSE)
    /\ bPc' = "saving"
    /\ UNCHANGED <<bIn, bImg, bAtt, bQ, bRet>>

\* lines 80-93: img.save completes, the size is measured
BatchSaveEnd ==
    /\ bPc = "saving"
    /\ \E size \in EncSizes :
        /\ bTmp' = NthEnc(bAtt + 1, bQ, size, TRUE)
        /\ IF size <= Budget
           THEN /\ bPc' = "replace"
                /\ UNCHANGED <<bAtt, bQ>>
           ELSE /\ bQ' = IF bQ - QualityStep > MinQuality
                         THEN bQ - QualityStep ELSE MinQuality
                /\ bAtt' = bAtt + 1
                /\ bPc' = IF bAtt + 1 < MaxAttempts THEN "save" ELSE "replace"
    /\ UNCHANGED <<bIn, bImg, bRet>>

\* line 80 raises while writing
BatchSaveFail ==
    /\ bPc = "saving"
    /\ bPc' = "handler"
    /\ UNCHANGED <<bIn, bImg, bTmp, bAtt, bQ, bRet>>

\* line 96: os.replace(temp_path, image_path_str)
BatchReplace ==
    /\ bPc = "replace"
    /\ bImg' = bTmp
    /\ bTmp' = NoTemp
    /\ bPc' = "report"
    /\ UNCHANGED <<bIn, bAtt, bQ, bRet>>

\* line 96 raises
BatchReplaceFail ==
    /\ bPc = "replace"
    /\ bPc' = "handler"
    /\ UNCHANGED <<bIn, bImg, bTmp, bAtt, bQ, bRet>>

\* lines 97-100: the new size is reported
BatchReport ==
    /\ bPc = "report"
    /\ bRet' = "True"
    /\ bPc' = "returned"
    /\ UNCHANGED <<bIn, bImg, bTmp, bAtt, bQ>>

\* line 97 or 98 raises
BatchReportFail ==
    /\ bPc = "report"
    /\ bPc' = "handler"
    /\ UNCHANGED <<bIn, bImg, bTmp, bAtt, bQ, bRet>>

\* lines 102-107: the temp file is removed if it exists
BatchHandler ==
    /\ bPc = "handler"
    /\ bTmp' = NoTemp
    /\ bRet' = "False"
    /\ bPc' = "returned"
    /\ UNCHANGED <<bIn, bImg, bAtt, bQ>>

\* line 106 raises: the exception leaves resize_image_to_max_size
BatchHandlerFail ==
    /\ bPc = "handler"
    /\ bTmp # NoTemp
    /\ bPc' = "raised"
    /\ UNCHANGED <<bIn, bImg, bTmp, bAtt, bQ, bRet>>

(***************************************************************************)
(* The transcode loop on pixel dimensions: _resize_image_if_needed from    *)
(* Image.open to the end of the while loop, with the file budget at its    *)
(* default of 1 MiB.  The encoder's output size is an input of each step.  *)
(***************************************************************************)

\* The products other * (T / long) that the double-precision evaluation
\* leaves just below their exact integer value, so that int() lands one
\* below the exact quotient; listed for the images of LoopImages.
FloatShort == {<<539, 1200, 1617>>, <<2105, 2000, 2105>>}

\* int(other * (T / long))
FloatMul(other, T, long) ==
    ((other * T) \div long) - (IF <<other, T, long>> \in FloatShort THEN 1 ELSE 0)

\* The size tuple the pre-scale hands to img.resize, << >> when it does not
\* resize.
PreScaleArg(current_size_mb, width, height) ==
    LET long == IF width > height THEN width ELSE height
        T == IF current_size_mb > AggressiveSizeMb
             THEN AggressiveMaxDim ELSE DefaultMaxDimension
    IN  IF long > T
        THEN IF width > height
             THEN <<T, FloatMul(height, T, width)>>
             ELSE <<FloatMul(width, T, height), T>>
        ELSE << >>

\* int(d * 0.9)
Shrink(d) == (9 * d) \div 10

ShrinkAfter_sixth(att, new_size) == att > 4 /\ 2 * new_size > 3 * Budget

\* attempts > 5 and new_size_mb > max_size_mb * 1.5
ShrinkAfter(att, new_size) == att > 5 /\ 2 * new_size > 3 * Budget

NextQuality_nofloor(q) == q - QualityStep

\* max(50, quality - 5)
NextQuality(q) == IF q - QualityStep > MinQuality THEN q - QualityStep ELSE MinQuality

LoopDims ==
    {<<6000, 4000>>, <<4000, 6000>>, <<2105, 2105>>, <<1617, 539>>, <<60000, 20>>,
     <<1000, 800>>, <<2001, 1333>>, <<1500, 1>>, <<3000, 3000>>}

LoopFileMb == {2, 11}

LoopImages == {[w |-> d[1], h |-> d[2], mb |-> m] : d \in LoopDims, m \in LoopFileMb}

LoopSizes == {Budget, Budget + 1, Budget + 2}

NoArg == << >>

ZeroDim(arg) == arg # NoArg /\ (arg[1] = 0 \/ arg[2] = 0)

InitLoopIdle ==
    /\ tPc = "idle"
    /\ tIn = [w |-> 1, h |-> 1, mb |-> 1]
    /\ tW = 1
    /\ tH = 1
    /\ tAtt = 0
    /\ tQ = StartQuality
    /\ tK = 0
    /\ tUsed = StartQuality
    /\ tLast = 0
    /\ tEnc = NoArg
    /\ tShr = FALSE
    /\ tArg = NoArg

InitLoop ==
    /\ tPc = "open"
    /\ tIn \in LoopImages
    /\ tW = tIn.w
    /\ tH = tIn.h
    /\ tAtt = 0
    /\ tQ = StartQuality
    /\ tK = 0
    /\ tUsed = StartQuality
    /\ tLast = 0
    /\ tEnc = NoArg
    /\ tShr = FALSE
    /\ tArg = NoArg

\* Image.open, the mode conversion, quality = 85 and the pre-scale; a size
\* with a zero in it makes img.resize raise.
TranscodeOpen ==
    /\ tPc = "open"
    /\ LET arg == PreScaleArg(tIn.mb, tIn.w, tIn.h)
       IN  /\ tArg' = arg
           /\ tPc' = IF ZeroDim(arg) THEN "failed" ELSE "loop"
           /\ tW' = IF arg = NoArg \/ ZeroDim(arg) THEN tW ELSE arg[1]
           /\ tH' = IF arg = NoArg \/ ZeroDim(arg) THEN tH ELSE arg[2]
    /\ tAtt' = 0
    /\ tQ' = StartQuality
    /\ UNCHANGED <<tIn, tK, tUsed, tLast, tEnc, tShr>>

\* One pass of the while loop: img.save, the size test, the shrink, the
\* quality step and attempts += 1.
TranscodeEncode ==
    /\ tPc = "loop"
    /\ tAtt < MaxAttempts
    /\ \E new_size \in LoopSizes :
          /\ tK' = tK + 1
          /\ tUsed' = tQ
          /\ tLast' = new_size
          /\ tEnc' = <<tW, tH>>
          /\ IF new_size <= Budget
             THEN /\ tPc' = "done"
                  /\ tShr' = FALSE
                  /\ UNCHANGED <<tW, tH, tAtt, tQ, tArg>>
             ELSE IF ShrinkAfter(tAtt, new_size)
                  THEN LET arg == <<Shrink(tW), Shrink(tH)>>
                       IN  /\ tShr' = TRUE
                           /\ tArg' = arg
                           /\ IF ZeroDim(arg)
                              THEN /\ tPc' = "failed"
                                   /\ UNCHANGED <<tW, tH, tAtt, tQ>>
                              ELSE /\ tW' = arg[1]
                                   /\ tH' = arg[2]
                                   /\ tQ' = NextQuality(tQ)
                                   /\ tAtt' = tAtt + 1
                                   /\ tPc' = IF tAtt + 1 < MaxAttempts THEN "loop" ELSE "done"
                  ELSE /\ tShr' = FALSE
                       /\ tQ' = NextQuality(tQ)
                       /\ tAtt' = tAtt + 1
                       /\ tPc' = IF tAtt + 1 < MaxAttempts THEN "loop" ELSE "done"
                       /\ UNCHANGED <<tW, tH, tArg>>
    /\ UNCHANGED tIn

(***************************************************************************)
(* The hosting-domain scan on its own: the list all_matches that the two   *)
(* regular expressions of lines 319 and 325 produce, and what lines        *)
(* 340-375 make of it.  Every URL of ScanUrls matches both expressions'    *)
(* URL part: hosting domain, namespace, two hash directories and a tail    *)
(* that ends in a raster extension.                                        *)
(***************************************************************************)
MaxMatches == 3

UQuery == UploadBase \o <<"commons", "a", "ab", "Foo.jpg?src=a.png">>
UEscQuestion == UploadBase \o <<"commons", "a", "ab", "Where%3F.jpg">>
UEscHash == UploadBase \o <<"en", "a", "ab", "Hash%23tag.png">>

ScanUrls == {UOrig, UEnOrig, UQuery, UEscQuestion, UEscHash, USvgRaster, UInnerThumb}

ScanInputs == SeqsUpTo(ScanUrls, MaxMatches)

InitScanIdle ==
    /\ cPc = "idle"
    /\ cIn = << >>
    /\ cOut = Continue

InitScan ==
    /\ cPc = "in"
    /\ cIn \in ScanInputs
    /\ cOut = Continue

ScanPage ==
    /\ cPc = "in"
    /\ cPc' = "done"
    /\ cOut' = ScanChoice(cIn)
    /\ UNCHANGED cIn

(***************************************************************************)
(* enrich_with_ai.py: main, run again and again over one input dataset.    *)
(* The dataset is a list of periods, each with a number of artworks; an    *)
(* artwork is the pair <<period, index>>.  The output file is "absent",    *)
(* "partial" (opened for writing and truncated, the dump not finished) or  *)
(* "whole" with its content, a function from periods to lists of entries;  *)
(* a period without key is the empty list, as line 274 makes it.           *)
(***************************************************************************)
MaxRuns == 3

Datasets == {<<2>>, <<1, 1>>, <<0, 2>>, <<2, 0>>, <<1, 2>>, <<2, 2>>}

Periods == UNION {DOMAIN ds : ds \in Datasets}

\* the artworks of a dataset in the order the two loops visit them
RECURSIVE ArtsFrom(_, _, _)
ArtsFrom(ds, p, i) ==
    IF p > Len(ds) THEN << >>
    ELSE IF i > ds[p] THEN ArtsFrom(ds, p + 1, 1)
    ELSE <<(<<p, i>>)>> \o ArtsFrom(ds, p, i + 1)

Arts(ds) == ArtsFrom(ds, 1, 1)

AllArts == UNION {{Arts(ds)[k] : k \in 1..Len(Arts(ds))} : ds \in Datasets}

EmptyOutput == [p \in Periods |-> << >>]

NoOutput == [state |-> "absent", data |-> EmptyOutput]

PartialOutput == [state |-> "partial", data |-> EmptyOutput]

Loaded_fresh(file) == EmptyOutput

\* lines 252-262: the output file read at the start of a run; a missing
\* file and one that json.load cannot parse both give the empty dataset
Loaded(file) == IF file.state \in {"absent", "partial"} THEN EmptyOutput ELSE file.data

\* what client.chat.completions.create and the parsing make of an
\* artwork: "ok" the parsed answer, "oddfield" a parsed answer whose
\* 'significance' has no len(), "badjson" and "raise" the artwork itself
ApiOutcomes == {"ok", "oddfield", "badjson", "raise"}

Entry(art, outcome, run) ==
    [art |-> art, ai |-> outcome \in {"ok", "oddfield"}, odd |-> outcome = "oddfield",
     run |-> run]

InitAiIdle ==
    /\ aPc = "idle"
    /\ aData = <<0>>
    /\ aFile = NoOutput
    /\ aMem = EmptyOutput
    /\ aPos = 1
    /\ aCalls = [a \in AllArts |-> 0]
    /\ aSaved = {}
    /\ aRuns = 0
    /\ aMid = FALSE

InitAi ==
    /\ aPc = "off"
    /\ aData \in Datasets
    /\ aFile = NoOutput
    /\ aMem = EmptyOutput
    /\ aPos = 1
    /\ aCalls = [a \in AllArts |-> 0]
    /\ aSaved = {}
    /\ aRuns = 0
    /\ aMid = FALSE

\* lines 219-265: main up to the loop
AiStart ==
    /\ aPc \in {"off", "finished"}
    /\ aRuns < MaxRuns
    /\ aRuns' = aRuns + 1
    /\ aMem' = Loaded(aFile)
    /\ aPos' = 1
    /\ aPc' = "loop"
    /\ UNCHANGED <<aData, aFile, aCalls, aSaved, aMid>>

\* lines 278-282: idx < len(enriched_dataset[period])
AiSkip ==
    /\ aPc = "loop"
    /\ aPos <= Len(Arts(aData))
    /\ LET art == Arts(aData)[aPos] IN art[2] <= Len(aMem[art[1]])
    /\ aPos' = aPos + 1
    /\ UNCHANGED <<aPc, aData, aFile, aMem, aCalls, aSaved, aRuns, aMid>>

\* lines 284-291: enrich_art_piece_with_ai and the append
AiCall ==
    /\ aPc = "loop"
    /\ aPos <= Len(Arts(aData))
    /\ LET art == Arts(aData)[aPos] IN
          /\ art[2] > Len(aMem[art[1]])
          /\ \E outcome \in ApiOutcomes :
                aMem' = [aMem EXCEPT ![art[1]] = Append(@, Entry(art, outcome, aRuns))]
          /\ aCalls' = [aCalls EXCEPT ![art] = @ + 1]
    /\ aPc' = "called"
    /\ UNCHANGED <<aData, aFile, aPos, aSaved, aRuns, aMid>>

\* lines 294-295 and 210-212: with print_results, len(significance) raises
\* for an answer whose 'significance' has no length, and main ends there
AiPrintRaise ==
    /\ aPc = "called"
    /\ LET art == Arts(aData)[aPos] IN aMem[art[1]][art[2]].odd
    /\ aPc' = "off"
    /\ aMid' = TRUE
    /\ UNCHANGED <<aData, aFile, aMem, aPos, aCalls, aSaved, aRuns>>

\* line 191: open(output_file, 'w') empties the file
AiSaveBegin ==
    /\ aPc = "called"
    /\ aFile' = PartialOutput
    /\ aPc' = "saving"
    /\ UNCHANGED <<aData, aMem, aPos, aCalls, aSaved, aRuns, aMid>>

\* line 192 and the end of the with block: the whole dataset is in the file
AiSaveEnd ==
    /\ aPc = "saving"
    /\ aFile' = [state |-> "whole", data |-> aMem]
    /\ aSaved' = aSaved \cup {a \in AllArts : a[2] <= Len(aMem[a[1]])}
    /\ aPc' = "saved"
    /\ UNCHANGED <<aData, aMem, aPos, aCalls, aRuns, aMid>>

\* line 302: time.sleep(1), then the next artwork
AiSleep ==
    /\ aPc = "saved"
    /\ aPos' = aPos + 1
    /\ aPc' = "loop"
    /\ UNCHANGED <<aData, aFile, aMem, aCalls, aSaved, aRuns, aMid>>

\* lines 304-307: both loops are through
AiFinish ==
    /\ aPc = "loop"
    /\ aPos = Len(Arts(aData)) + 1
    /\ aPc' = "finished"
    /\ UNCHANGED <<aData, aFile, aMem, aPos, aCalls, aSaved, aRuns, aMid>>

\* The process is stopped (Ctrl-C, kill, power loss): between two artworks
\* when it is at the top of the loop or asleep, within one otherwise.
AiInterrupt ==
    /\ aPc \in {"loop", "called", "saving", "saved"}
    /\ aPc' = "off"
    /\ aMid' = (aMid \/ aPc \in {"called", "saving"})
    /\ UNCHANGED <<aData, aFile, aMem, aPos, aCalls, aSaved, aRuns>>

(***************************************************************************)
(* preprocess_data.py: geocode_location called again and again with one    *)
(* cache, as the loop of the preprocessing run does.  The geocoder answers *)
(* each request with coordinates, with nothing, or by raising.             *)
(***************************************************************************)
MaxGeoCalls == 3

Locations ==
    {"Paris, France", " Paris, France ", "Babylon (present-day Iraq)", "(attributed)",
     "   ", ""}

\* location_str.strip()
strip(s) ==
    IF s = " Paris, France " THEN "Paris, France"
    ELSE IF s = "   " THEN ""
    ELSE s

GeoKeys == {strip(s) : s \in Locations} \ {""}

\* lines 83-133: the queries tried for a stripped location, in order
unique_fallbacks ==
    ("Paris, France" :> <<"Paris, France", "France">>)
    @@ ("Babylon (present-day Iraq)" :> <<"Iraq">>)
    @@ ("(attributed)" :> << >>)

GeoOutcomes == {"none", "timeout", "error", "found1", "found2"}

NoneVal == [none |-> TRUE, lat |-> 0, lng |-> 0]

Coordinates(outcome) ==
    [none |-> FALSE, lat |-> IF outcome = "found1" THEN 1 ELSE 2,
     lng |-> IF outcome = "found1" THEN 1 ELSE 2]

NoEntry == [has |-> FALSE, val |-> NoneVal]

InCache_truthy(cache, key) == cache[key].has /\ ~cache[key].val.none

\* location_str in cache
InCache(cache, key) == cache[key].has

\* lines 136-161: the requests made for the answers outs, and the value
\* cached and returned
TryAll(key, outs) ==
    LET tries == unique_fallbacks[key]
        found == {i \in 1..Len(tries) : outs[i] \in {"found1", "found2"}}
    IN  IF found = {} THEN [reqs |-> Len(tries), val |-> NoneVal]
        ELSE LET i == CHOOSE j \in found : \A k \in found : j <= k
             IN  [reqs |-> i, val |-> Coordinates(outs[i])]

NoCall == [s |-> "", key |-> "", ret |-> NoneVal, reqs |-> 0]

InitGeoIdle ==
    /\ gPc = "idle"
    /\ gCache = [k \in GeoKeys |-> NoEntry]
    /\ gPrev = [k \in GeoKeys |-> NoEntry]
    /\ gLast = NoCall
    /\ gReqs = 0
    /\ gCalls = 0

InitGeo ==
    /\ gPc = "run"
    /\ gCache = [k \in GeoKeys |-> NoEntry]
    /\ gPrev = [k \in GeoKeys |-> NoEntry]
    /\ gLast = NoCall
    /\ gReqs = 0
    /\ gCalls = 0

geocode_location ==
    /\ gPc = "run"
    /\ gCalls < MaxGeoCalls
    /\ gCalls' = gCalls + 1
    /\ gPrev' = gCache
    /\ \E s \in Locations :
          LET key == strip(s) IN
          IF key = ""
          THEN /\ gLast' = [s |-> s, key |-> key, ret |-> NoneVal, reqs |-> 0]
               /\ UNCHANGED <<gCache, gReqs>>
          ELSE IF InCache(gCache, key)
          THEN /\ gLast' = [s |-> s, key |-> key, ret |-> gCache[key].val, reqs |-> 0]
               /\ UNCHANGED <<gCache, gReqs>>
          ELSE \E outs \in [1..Len(unique_fallbacks[key]) -> GeoOutcomes] :
                  LET r == TryAll(key, outs) IN
                  /\ gCache' = [gCache EXCEPT ![key] = [has |-> TRUE, val |-> r.val]]
                  /\ gReqs' = gReqs + r.reqs
                  /\ gLast' = [s |-> s, key |-> key, ret |-> r.val, reqs |-> r.reqs]
    /\ UNCHANGED gPc

(***************************************************************************)
(* Specifications.                                                         *)
(***************************************************************************)
\* the files found in the image directory when the run starts
InitialStores ==
    { [p \in Paths |-> IF p[2] \in present[p[1]] THEN Pre ELSE Absent] :
        present \in [Keys -> {{}, {".jpg"}, {".png"}, {".jpeg", ".gif"}}] }

InitPipeIdle ==
    /\ pil = TRUE
    /\ files = [p \in Paths |-> Absent]
    /\ pc = "idle"
    /\ calls = 0
    /\ cur = << >>
    /\ reqs = 0
    /\ loc = LocateIdle
    /\ body = NoBody
    /\ attempts = 0
    /\ quality = 0
    /\ ret = [state |-> "none", image |-> NoFile, via |-> ""]

InitPipe ==
    /\ pil \in BOOLEAN
    /\ files \in InitialStores
    /\ pc = "idle"
    /\ calls = 0
    /\ cur = << >>
    /\ reqs = 0
    /\ loc = LocateIdle
    /\ body = NoBody
    /\ attempts = 0
    /\ quality = 0
    /\ ret = [state |-> "none", image |-> NoFile, via |-> ""]

hvars == <<uvars, kvars, lvars, svars, bvars, tvars, cvars, avars, gvars>>

Init == InitPipe /\ InitUrlIdle /\ InitKeyIdle /\ InitLocateIdle /\ InitScaleIdle /\ InitBatchIdle /\ InitLoopIdle /\ InitScanIdle /\ InitAiIdle /\ InitGeoIdle
Next ==
    \/ EnrichBegin /\ UNCHANGED hvars
    \/ LocateImage /\ UNCHANGED hvars
    \/ StoreImage /\ UNCHANGED hvars
    \/ DownloadRaise /\ UNCHANGED hvars
    \/ DownloadBadStatus /\ UNCHANGED hvars
    \/ DownloadOpen /\ UNCHANGED hvars
    \/ DownloadStream /\ UNCHANGED hvars
    \/ DownloadStreamFail /\ UNCHANGED hvars
    \/ DownloadRenameNoPil /\ UNCHANGED hvars
    \/ ResizeSmall /\ UNCHANGED hvars
    \/ ResizeOpen /\ UNCHANGED hvars
    \/ ResizeOpenFail /\ UNCHANGED hvars
    \/ ResizeSaveBegin /\ UNCHANGED hvars
    \/ ResizeSaveEnd /\ UNCHANGED hvars
    \/ ResizeSaveFail /\ UNCHANGED hvars
    \/ ResizeRemove /\ UNCHANGED hvars
    \/ DownloadFallback /\ UNCHANGED hvars
    \/ DownloadRenameFail /\ UNCHANGED hvars
    \/ DownloadCleanupFail /\ UNCHANGED hvars
Spec == Init /\ [][Next]_vars

\* the driver and the calls it makes keep running: no step is delayed for ever
FairSpec == Spec /\ WF_vars(Next)

\* the pipeline with runs that are stopped and started again
InitSpecResume == Init
NextSpecResume ==
    \/ Next
    \/ Interrupt /\ UNCHANGED hvars
SpecResume == InitSpecResume /\ [][NextSpecResume]_vars

InitSpecBatch ==
    /\ InitBatch /\ InitUrlIdle /\ InitKeyIdle /\ InitLocateIdle /\ InitPipeIdle
    /\ InitScaleIdle
    /\ InitLoopIdle
    /\ InitScanIdle
    /\ InitAiIdle
    /\ InitGeoIdle
ovars == <<uvars, kvars, lvars, pvars, svars, tvars, cvars, avars, gvars>>
NextSpecBatch ==
    \/ BatchSmall /\ UNCHANGED ovars
    \/ BatchOpen /\ UNCHANGED ovars
    \/ BatchOpenFail /\ UNCHANGED ovars
    \/ BatchSaveBegin /\ UNCHANGED ovars
    \/ BatchSaveEnd /\ UNCHANGED ovars
    \/ BatchSaveFail /\ UNCHANGED ovars
    \/ BatchReplace /\ UNCHANGED ovars
    \/ BatchReplaceFail /\ UNCHANGED ovars
    \/ BatchReport /\ UNCHANGED ovars
    \/ BatchReportFail /\ UNCHANGED ovars
    \/ BatchHandler /\ UNCHANGED ovars
    \/ BatchHandlerFail /\ UNCHANGED ovars
SpecBatch == InitSpecBatch /\ [][NextSpecBatch]_vars

InitSpecScale ==
    /\ InitScale /\ InitUrlIdle /\ InitKeyIdle /\ InitLocateIdle /\ InitPipeIdle
    /\ InitBatchIdle
    /\ InitLoopIdle
    /\ InitScanIdle
    /\ InitAiIdle
    /\ InitGeoIdle
NextSpecScale == Scale /\ UNCHANGED <<uvars, kvars, lvars, pvars, bvars, tvars, cvars, avars, gvars>>
SpecScale == InitSpecScale /\ [][NextSpecScale]_vars

InitSpecUrl == InitUrl /\ InitKeyIdle /\ InitLocateIdle /\ InitPipeIdle /\ InitScaleIdle /\ InitBatchIdle /\ InitLoopIdle /\ InitScanIdle /\ InitAiIdle /\ InitGeoIdle
NextSpecUrl ==
    \/ Resolve /\ UNCHANGED <<kvars, lvars, pvars, svars, bvars, tvars, cvars, avars, gvars>>
    \/ ResolveAgain /\ UNCHANGED <<kvars, lvars, pvars, svars, bvars, tvars, cvars, avars, gvars>>
SpecUrl == InitSpecUrl /\ [][NextSpecUrl]_vars

InitSpecKey == InitKey /\ InitUrlIdle /\ InitLocateIdle /\ InitPipeIdle /\ InitScaleIdle /\ InitBatchIdle /\ InitLoopIdle /\ InitScanIdle /\ InitAiIdle /\ InitGeoIdle
NextSpecKey == DeriveKey /\ UNCHANGED <<uvars, lvars, pvars, svars, bvars, tvars, cvars, avars, gvars>>
SpecKey == InitSpecKey /\ [][NextSpecKey]_vars

InitSpecLocate == InitLocate /\ InitUrlIdle /\ InitKeyIdle /\ InitPipeIdle /\ InitScaleIdle /\ InitBatchIdle /\ InitLoopIdle /\ InitScanIdle /\ InitAiIdle /\ InitGeoIdle
NextSpecLocate == Locate /\ UNCHANGED <<uvars, kvars, pvars, svars, bvars, tvars, cvars, avars, gvars>>
SpecLocate == InitSpecLocate /\ [][NextSpecLocate]_vars

InitSpecLoop ==
    /\ InitLoop /\ InitUrlIdle /\ InitKeyIdle /\ InitLocateIdle /\ InitPipeIdle
    /\ InitScaleIdle /\ InitBatchIdle
    /\ InitScanIdle
    /\ InitAiIdle
    /\ InitGeoIdle
xvars == <<uvars, kvars, lvars, pvars, svars, bvars, cvars, avars, gvars>>
NextSpecLoop ==
    \/ TranscodeOpen /\ UNCHANGED xvars
    \/ TranscodeEncode /\ UNCHANGED xvars
SpecLoop == InitSpecLoop /\ [][NextSpecLoop]_vars

InitSpecScan ==
    /\ InitScan /\ InitUrlIdle /\ InitKeyIdle /\ InitLocateIdle /\ InitPipeIdle
    /\ InitScaleIdle /\ InitBatchIdle /\ InitLoopIdle
    /\ InitAiIdle
    /\ InitGeoIdle
NextSpecScan == ScanPage /\ UNCHANGED <<uvars, kvars, lvars, pvars, svars, bvars, tvars, avars, gvars>>
SpecScan == InitSpecScan /\ [][NextSpecScan]_vars

InitSpecAi ==
    /\ InitAi /\ InitUrlIdle /\ InitKeyIdle /\ InitLocateIdle /\ InitPipeIdle
    /\ InitScaleIdle /\ InitBatchIdle /\ InitLoopIdle /\ InitScanIdle
    /\ InitGeoIdle
yvars == <<uvars, kvars, lvars, pvars, svars, bvars, tvars, cvars, gvars>>
NextSpecAi ==
    \/ AiStart /\ UNCHANGED yvars
    \/ AiSkip /\ UNCHANGED yvars
    \/ AiCall /\ UNCHANGED yvars
    \/ AiPrintRaise /\ UNCHANGED yvars
    \/ AiSaveBegin /\ UNCHANGED yvars
    \/ AiSaveEnd /\ UNCHANGED yvars
    \/ AiSleep /\ UNCHANGED yvars
    \/ AiFinish /\ UNCHANGED yvars
    \/ AiInterrupt /\ UNCHANGED yvars
SpecAi == InitSpecAi /\ [][NextSpecAi]_vars

InitSpecGeo ==
    /\ InitGeo /\ InitUrlIdle /\ InitKeyIdle /\ InitLocateIdle /\ InitPipeIdle
    /\ InitScaleIdle /\ InitBatchIdle /\ InitLoopIdle /\ InitScanIdle /\ InitAiIdle
NextSpecGeo ==
    geocode_location /\ UNCHANGED <<uvars, kvars, lvars, pvars, svars, bvars, tvars, cvars, avars>>
SpecGeo == InitSpecGeo /\ [][NextSpecGeo]_vars

\* A network failure of a stage (a raised request error or a non-success
\* status) seen as the stage finding nothing.
Soft(r) == IF r.status = "raise" THEN [r EXCEPT !.status = "fail"] ELSE r

\* C3 (as claimed): a network failure in any single stage, the first
\* included, is that stage finding nothing: the later stages are still
\* executed (their requests are issued) and the candidate they yield is
\* returned.
C3_FailureIsMiss ==
    lPc = "done"
        => lRes = get_image_url(Soft(lNet[1]), Soft(lNet[2]), Soft(lNet[3]))

\* C8 (as claimed): a derived key holds none of the characters
\* < > : " / \ | ? *, no whitespace, and at most 200 characters.
C8_KeySafe ==
    (kPc = "done" /\ ~kKey.raised)
        => /\ \A i \in 1..Len(kKey.key) :
                kKey.key[i] \notin ForbiddenChars \cup WhitespaceChars
           /\ Len(kKey.key) <= 200

\* The substitution the claim describes: "Unknown" for a field that is
\* missing, null or empty.
OrUnknown(f) == IF f.tag # "str" \/ f.s = << >> THEN Unknown ELSE f.s

\* C9 (as claimed): key derivation never fails, and a missing, null or
\* empty artist or title is replaced by "Unknown" before sanitizing.
C9_AlwaysKey ==
    kPc = "done"
        => /\ ~kKey.raised
           /\ kKey.key = sanitize_filename(OrUnknown(kArt.artist)) \o <<"_">>
                          \o sanitize_filename(OrUnknown(kArt.title))

\* A URL with no thumbnail marker: no /thumb/ path segment and no segment
\* that starts with a <width>px- size marker.
NoMarker(url) == ~HasInner(url, "thumb") /\ ~HasSeg(url, SizeTailSegs)

\* C5 (as claimed): _thumbnail_to_original applied to its own output gives
\* the same result.
C5_Idempotent == uPc = "twice" => uOut2 = uOut

ThumbFirstTail == <<"thumb", "commons", "a", "ab", "Foo.jpg", "300px-Foo.jpg">>

\* C7 (as claimed): P/thumb/commons/a/ab/Foo.jpg/300px-Foo.jpg resolves to
\* P/commons/a/ab/Foo.jpg for every prefix P.
C7_ThumbResolved ==
    \A p \in UrlPrefixes :
        (uPc = "once" /\ uIn = p \o ThumbFirstTail)
            => uOut = p \o <<"commons", "a", "ab", "Foo.jpg">>

(***************************************************************************)
(* Claims about the pipeline (specification Spec).                         *)
(***************************************************************************)
InDownload ==
    {"dl_get", "dl_stream", "dl_rename", "dl_fallback",
     "rs_size", "rs_save", "rs_saving", "rs_remove"}

\* C1: whatever the transcoder stored under the canonical path, including
\* for a download already within the budget, is a JPEG encode and never the
\* raw downloaded bytes.
C1_AlwaysEncoded ==
    ret.via \in {"small", "encoded"} => files[Path(cur, ".jpg")].kind = "enc"

\* C2: a call of enrich_art_piece that starts while the image directory
\* holds a file of the key under a recognized extension issues no request,
\* changes nothing in the store and returns the name of such a file.
C2_CacheHit ==
    [][(/\ pc = "idle"
        /\ cur' \in Keys
        /\ \E i \in 1..Len(Exts) : files[Path(cur', Exts[i])] # Absent)
       => /\ pc' = "idle"
          /\ reqs' = 0
          /\ files' = files
          /\ ret'.state = "returned"
          /\ \E i \in 1..Len(Exts) :
                /\ files[Path(cur', Exts[i])] # Absent
                /\ ret'.image = Path(cur', Exts[i])]_vars

\* a second call for a key returned the file an earlier call had encoded
C2_Witness ==
    /\ pc = "idle"
    /\ calls = 2
    /\ ret.via = "hit"
    /\ reqs = 0
    /\ files[Path(cur, ".jpg")].kind = "enc"
    /\ ret.image = Path(cur, ".jpg")

\* C4: at every step of download_image the canonical path is absent or
\* holds the complete final bytes: no partial file, and no over-budget
\* encode that a further attempt will overwrite.
C4_AtomicWrite ==
    pc \in InDownload =>
        \/ files[Path(cur, ".jpg")] = Absent
        \/ /\ files[Path(cur, ".jpg")].full
           /\ pc # "rs_save"

\* C10: get_image_url never raises, and when it returns None the call of
\* enrich_art_piece returns normally with image_filename None.
C10_NeverRaises ==
    [][pc = "store"
       => /\ ~loc.raised
          /\ loc.url = NoneUrl
             => /\ pc' = "idle"
                /\ ret'.state = "returned"
                /\ ret'.image = NoFile]_vars

\* an exception inside get_image_url was swallowed and the call returned
\* with no image
C10_Witness ==
    /\ pc = "idle"
    /\ loc.logged
    /\ loc.url = NoneUrl
    /\ ret = [state |-> "returned", image |-> NoFile, via |-> "noimage"]

(***************************************************************************)
(* Claims about the image locator (specification SpecLocate).              *)
(***************************************************************************)
\* C11: every URL returned by get_image_url passes the vector check:
\* _is_svg_url of the result is false, from whichever stage it comes.
C11_NeverVector ==
    lPc = "done" /\ lRes.url # NoneUrl => ~is_svg_url(lRes.url)

\* the only candidate of the structured lookup is a vector image, and a
\* later stage provides the URL that is returned
C11_Witness ==
    /\ lPc = "done"
    /\ lNet[1] = [status |-> "ok", original |-> Field("dict", USvg),
                  thumbnail |-> Field("dict", USvgThumb)]
    /\ lRes.reqs > 1
    /\ lRes.url = UOrig

\* spec 4.3, isThumbnailRendition: a /thumb/ path segment, or a <width>px-
\* size marker in front of the filename
isThumbnailRendition(url) ==
    HasInner(url, "thumb") \/ url[Len(url)] \in SizeTailSegs

\* C12: every URL returned by get_image_url is not a thumbnail rendition.
C12_NeverThumbnail ==
    lPc = "done" /\ lRes.url # NoneUrl => ~isThumbnailRendition(lRes.url)

(***************************************************************************)
(* Claims about the transcoder and the store (specifications Spec and      *)
(* FairSpec).                                                              *)
(***************************************************************************)
InLoop == {"rs_save", "rs_saving"}

\* the steps of the compression loop: an encode over the budget is followed
\* by another attempt only while fewer than 20 were made; the loop is left
\* on the first encode within the budget or after the 20th; the encode it
\* was left on stays at the canonical path and the call returns it
LoopStep ==
    /\ attempts' <= MaxAttempts
    /\ pc = "rs_saving" /\ pc' = "rs_save"
       => /\ files'[Path(cur, ".jpg")].size > Budget
          /\ attempts' = attempts + 1
          /\ attempts' < MaxAttempts
    /\ pc = "rs_saving" /\ pc' = "rs_remove"
       => /\ files'[Path(cur, ".jpg")].kind = "enc"
          /\ files'[Path(cur, ".jpg")].full
          /\ \/ /\ files'[Path(cur, ".jpg")].size <= Budget
                /\ attempts' = attempts
             \/ /\ files'[Path(cur, ".jpg")].size > Budget
                /\ attempts' = MaxAttempts
    /\ pc = "rs_remove" /\ pc' # "rs_remove"
       => /\ files'[Path(cur, ".jpg")] = files[Path(cur, ".jpg")]
          /\ ret' = [state |-> "returned", image |-> Path(cur, ".jpg"),
                     via |-> "encoded"]

C14_ThresholdByBudget ==
    sPc = "done" =>
        LET threshold == IF sIn.size > 10 * sIn.budget
                         THEN AggressiveMaxDim ELSE sIn.max_dimension
        IN  sOut = IF sIn.edge > threshold THEN threshold ELSE sIn.edge

\* the fallback stored the raw download under the canonical path and the
\* call reports success
KeptRaw ==
    /\ files'[Path(cur, ".jpg")] = Raw(body, TRUE)
    /\ files'[Path(cur, TmpExt)] = Absent
    /\ ret' = [state |-> "returned", image |-> Path(cur, ".jpg"),
               via |-> "fallback"]

\* the rename of the fallback raised: the canonical path is left as it
\* was; the temp file is removed and the call reports no image, or removing
\* it raises too and the exception leaves the call
RenameFailed ==
    /\ files'[Path(cur, ".jpg")] = files[Path(cur, ".jpg")]
    /\ \/ /\ files'[Path(cur, TmpExt)] = Absent
          /\ ret' = [state |-> "returned", image |-> NoFile, via |-> "dlfailed"]
       \/ /\ files'[Path(cur, TmpExt)] = files[Path(cur, TmpExt)]
          /\ ret' = [state |-> "raised", image |-> NoFile, via |-> "cleanup"]

C16_BatchGoesOn ==
    pc = "aborted" => ret.via = "key"

\* the order in which the claim says the extensions are probed
PreferenceOrder == <<".jpg", ".jpeg", ".png", ".webp", ".gif">>

\* the positions in PreferenceOrder under which a file of the key exists
Present(key) ==
    {i \in 1..Len(PreferenceOrder) : files[Path(key, PreferenceOrder[i])] # Absent}

\* the earliest extension of PreferenceOrder under which the key has a file
Earliest(key) ==
    PreferenceOrder[CHOOSE i \in Present(key) : \A j \in Present(key) : i <= j]

\* C17: the existence check probes .jpg, .jpeg, .png, .webp, .gif in this
\* order and records the first one present, at the start of a call and
\* again before the download; the image is treated as missing only if no
\* recognized extension is present.
C17_FirstPresent ==
    [][/\ pc = "idle" /\ cur' \in Keys
          => IF Present(cur') # {}
             THEN ret' = [state |-> "returned",
                          image |-> Path(cur', Earliest(cur')), via |-> "hit"]
             ELSE ret'.via # "hit" /\ reqs' > 0
       /\ pc = "store" /\ loc.url # NoneUrl
          => IF Present(cur) # {}
             THEN ret' = [state |-> "returned",
                          image |-> Path(cur, Earliest(cur)), via |-> "exists"]
             ELSE pc' = "dl_get"]_vars

\* files of the key exist under .jpeg and .gif, and .jpeg was recorded
C17_Witness ==
    /\ pc = "idle"
    /\ ret.via = "hit"
    /\ cur \in Keys
    /\ Present(cur) = {2, 5}
    /\ ret.image = Path(cur, ".jpeg")

\* the paths under which images are stored (the temp paths are not)
ImagePaths == { p \in Paths : p[2] # TmpExt }

\* C18: download_image is invoked for a key only when no file of the key
\* exists under any recognized extension, and only the canonical path of that
\* key is ever written: a file that existed before a call is unchanged
\* after it.
C18_NeverOverwritten ==
    [][/\ pc = "store" /\ pc' = "dl_get"
          => \A i \in 1..Len(PreferenceOrder) :
                files[Path(cur, PreferenceOrder[i])] = Absent
       /\ \A p \in ImagePaths :
             files'[p] # files[p]
             => /\ pc \in InDownload
                /\ p = Path(cur, ".jpg")
                /\ files[p].kind # "pre"]_vars

\* an image was downloaded and encoded for one key while the file found
\* for another key at the start of the run is still as it was
C18_Witness ==
    /\ pc = "idle"
    /\ ret.via = "encoded"
    /\ files[Path(cur, ".jpg")].kind = "enc"
    /\ \E k \in Keys : k # cur /\ files[Path(k, ".png")] = Pre

(***************************************************************************)
(* Claims about the batch resizer (specification SpecBatch).               *)
(***************************************************************************)
\* the temp file holds the complete output of the last encode of the loop:
\* the first one within the budget, or the 20th
LastEncode ==
    /\ bTmp.kind = "enc"
    /\ bTmp.full
    /\ \/ bTmp.size <= Budget /\ bTmp.n = bAtt + 1
       \/ bTmp.size > Budget /\ bTmp.n = MaxAttempts /\ bAtt = MaxAttempts

\* C19: the file at the image path changes only once, from the original to
\* the complete last encode by a replace from the temp file; when
\* resize_image_to_max_size returns, the file is the original (always so for
\* an image within the budget) or that encode, and no temp file remains.
C19_BatchInPlace ==
    [][/\ bImg' # bImg
          => /\ bImg = Orig(bIn)
             /\ LastEncode
             /\ bImg' = bTmp
             /\ bTmp' = NoTemp
       /\ bPc' = "returned"
          => /\ bTmp' = NoTemp
             /\ bImg' = Orig(bIn) \/ (bImg'.kind = "enc" /\ bImg'.full)
             /\ bIn.size <= Budget => bImg' = Orig(bIn)
             /\ bRet' = "True" => bImg'.kind = "enc"]_vars

\* the third encode met the budget and was installed; the two encodes
\* before it were never at the image path
C19_Witness ==
    /\ bPc = "returned"
    /\ bRet = "True"
    /\ bTmp = NoTemp
    /\ bImg = NthEnc(3, StartQuality - 2 * QualityStep, Budget, TRUE)

(***************************************************************************)
(* Claims about stopped runs (specification SpecResume).                   *)
(***************************************************************************)
\* a file that is completely written and is not an encode that the loop
\* was going to replace by a further attempt
CompleteFinal(c) ==
    /\ c.full
    /\ ~(c.kind = "enc" /\ c.size > Budget /\ c.q > MinQuality)

\* C20: after a run was stopped at any point of an artwork, the existence
\* check of the next run reports the artwork as resolved only if the file it
\* finds is a complete final image.
C20_ResumeComplete ==
    ret.via = "hit" => CompleteFinal(files[ret.image])

(***************************************************************************)
(* Further claims about the download (specification Spec).                 *)
(***************************************************************************)
\* C21: whenever download_image returns False, the call leaves neither the
\* temp file nor a new file at the canonical path in the image directory.
C21_FailureLeavesNothing ==
    ret.via = "dlfailed"
    => /\ files[Path(cur, TmpExt)] = Absent
       /\ files[Path(cur, ".jpg")] = Absent

(***************************************************************************)
(* Further claims about the image locator (specification SpecLocate).      *)
(***************************************************************************)
\* what a strategy yields for a candidate that is resolved first: the
\* original if it is acceptable, else nothing
Resolved(u) ==
    IF Accept(thumbnail_to_original(u)) THEN thumbnail_to_original(u) ELSE NoneUrl

\* what each of the seven strategies yields on the responses net, in the
\* order of the claim; NoneUrl when it yields nothing usable (its request
\* failed, its field or pattern is absent, its candidate is not acceptable)
Candidates(net) ==
    << IF net[1].status = "ok" /\ net[1].original.shape \in {"dict", "str"}
          /\ ~is_svg_url(net[1].original.url)
       THEN net[1].original.url ELSE NoneUrl,
       IF net[1].status = "ok" /\ net[1].thumbnail.shape = "dict"
       THEN Resolved(net[1].thumbnail.url) ELSE NoneUrl,
       IF net[2].status = "ok" /\ net[2].thumbnail.shape = "dict"
       THEN Resolved(net[2].thumbnail.url) ELSE NoneUrl,
       IF net[3].status = "ok" THEN PageInfobox(net[3]).url ELSE NoneUrl,
       IF net[3].status = "ok" THEN PageContent(net[3]).url ELSE NoneUrl,
       IF net[3].status = "ok" THEN PageScan(net[3]).url ELSE NoneUrl,
       IF net[3].status = "ok" THEN PageLazy(net[3]).url ELSE NoneUrl >>

\* the first usable candidate of a sequence, NoneUrl when there is none
FirstUsable(cands) ==
    LET usable == {i \in 1..Len(cands) : cands[i] # NoneUrl} IN
    IF usable = {} THEN NoneUrl
    ELSE cands[CHOOSE i \in usable : \A j \in usable : i <= j]

\* C22: get_image_url returns the candidate of the first strategy, in the
\* order original, structured thumbnail, summary thumbnail, infobox image,
\* content image, hosting-domain scan, lazy-load attributes, that yields an
\* acceptable URL.
C22_FixedOrder ==
    lPc = "done" => lRes.url = FirstUsable(Candidates(lNet))

\* The last encode missed the budget.
FailedAttempt == tK >= 1 /\ tLast > Budget

\* C23 as stated: after the k-th encode has missed the budget, both
\* dimensions are shrunk to int(0.9 d) exactly when k >= 6 and the measured
\* size exceeds 1.5 x the budget; no shrink after the first 5 encodes.
C23_ShrinkFromSixth ==
    FailedAttempt => (tShr <=> (tK >= 6 /\ 2 * tLast > 3 * Budget))

\* C23 amended: the shrink follows the k-th missed encode exactly when
\* k >= 7 and the measured size exceeds 1.5 x the budget (the counter
\* compared with 5 counts the earlier failed attempts, k - 1); the
\* dimensions of the next encode are int(0.9 d) of the encoded ones then,
\* and the encoded ones otherwise.
C23_ShrinkFromSeventh ==
    FailedAttempt =>
        /\ tShr <=> (tK >= 7 /\ 2 * tLast > 3 * Budget)
        /\ tPc # "failed" =>
              <<tW, tH>> = IF tK >= 7 /\ 2 * tLast > 3 * Budget
                           THEN <<(9 * tEnc[1]) \div 10, (9 * tEnc[2]) \div 10>>
                           ELSE tEnc

C23_Witness ==
    /\ tPc = "loop" /\ tK = 7 /\ tLast = Budget + 2 /\ tShr
    /\ tEnc = <<1200, 800>> /\ <<tW, tH>> = <<1080, 720>>

\* C24: the quality stays within 50..85, the first encode uses 85, and the
\* k-th encode uses max(50, 85 - 5 (k - 1)): five less after each failed
\* attempt down to 50, and 50 from then on.
C24_QualitySchedule ==
    /\ 50 <= tQ /\ tQ <= 85
    /\ tK >= 1 =>
          /\ tUsed = IF 85 - 5 * (tK - 1) > 50 THEN 85 - 5 * (tK - 1) ELSE 50
          /\ FailedAttempt /\ tPc # "failed" =>
                tQ = IF tUsed - 5 > 50 THEN tUsed - 5 ELSE 50

C24_Witness == tPc = "loop" /\ tK = 9 /\ tUsed = 50 /\ tQ = 50 /\ tLast > Budget

\* The threshold the pre-scale selects for the opened image.
Threshold == IF tIn.mb > AggressiveSizeMb THEN AggressiveMaxDim ELSE DefaultMaxDimension

\* C25: when the long edge exceeds the threshold T the pre-scale makes the
\* long edge T and the other edge floor(other x T / long), T x T for a
\* square image; and at every encode the short edge is within one pixel of
\* the input's ratio applied to the long edge, the 10% shrinks included.
C25_AspectRatio ==
    /\ tPc # "open" /\ tArg # NoArg /\ tK = 0 =>
          tArg = IF tIn.w > tIn.h
                 THEN <<Threshold, (tIn.h * Threshold) \div tIn.w>>
                 ELSE <<(tIn.w * Threshold) \div tIn.h, Threshold>>
    /\ tPc \in {"loop", "done"} =>
          IF tIn.w > tIn.h
          THEN tH * tIn.w - tW * tIn.h < tIn.w /\ tW * tIn.h - tH * tIn.w < tIn.w
          ELSE tW * tIn.h - tH * tIn.w < tIn.h /\ tH * tIn.w - tW * tIn.h < tIn.h

\* A URL without its query string and fragment.
Stripped(url) == SplitFirst(SplitFirst(url, BeforeQuestion), BeforeHash)

\* The matches of the scan without query string and fragment, each form
\* once, in the order of first occurrence.
ScanCandidates == Unique([i \in 1..Len(cIn) |-> Stripped(cIn[i])])

IsPlainRaster(u) == ~HasInner(u, "thumb") /\ ~is_svg_url(u)

Lowest(S) == CHOOSE i \in S : \A j \in S : i <= j

\* C26: the scan yields the first candidate that is neither a thumbnail nor
\* a vector image and lies in the commons namespace; failing that the first
\* that is neither a thumbnail nor a vector image; failing that the
\* resolved original of the first thumbnail whose original is not a vector
\* image; candidates being the matches with query string and fragment
\* stripped, each once, in first-occurrence order.
C26_ScanPreference ==
    cPc = "done" =>
        LET c == ScanCandidates
            commons == {i \in 1..Len(c) : IsPlainRaster(c[i]) /\ HasInner(c[i], "commons")}
            plain == {i \in 1..Len(c) : IsPlainRaster(c[i])}
            thumbs == {i \in 1..Len(c) :
                          /\ HasInner(c[i], "thumb")
                          /\ thumbnail_to_original(c[i]) # NoneUrl
                          /\ ~is_svg_url(thumbnail_to_original(c[i]))}
        IN  cOut = IF commons # {} THEN Return(c[Lowest(commons)])
                   ELSE IF plain # {} THEN Return(c[Lowest(plain)])
                   ELSE IF thumbs # {} THEN Return(thumbnail_to_original(c[Lowest(thumbs)]))
                   ELSE Continue

\* C27: every size handed to img.resize, by the pre-scale or by a 10%
\* shrink, has a width and a height of at least 1.
C27_DimensionsPositive ==
    tArg # NoArg => tArg[1] >= 1 /\ tArg[2] >= 1

(***************************************************************************)
(* Claims about the AI enrichment (specification SpecAi).                  *)
(***************************************************************************)
\* C28: as long as every run that was stopped was stopped between two
\* artworks, the API has been called at most once for each artwork over all
\* runs, the output file holds for each period the entries of its first
\* artworks in input order, one each, and after a run that went through it
\* holds one entry for every artwork of the input.
C28_ResumeOnce ==
    ~aMid =>
        /\ \A a \in AllArts : aCalls[a] <= 1
        /\ aFile.state = "whole" =>
              \A p \in Periods : \A i \in 1..Len(aFile.data[p]) :
                 /\ p \in DOMAIN aData /\ i <= aData[p]
                 /\ aFile.data[p][i].art = <<p, i>>
        /\ aPc = "finished" =>
              /\ aFile.state = "whole"
              /\ \A p \in DOMAIN aData : Len(aFile.data[p]) = aData[p]

C28_Witness ==
    /\ aPc = "finished" /\ ~aMid /\ aRuns = 3 /\ aData = <<1, 2>>
    /\ aFile.state = "whole"
    /\ aFile.data[1][1].run = 1 /\ aFile.data[2][1].run = 2 /\ aFile.data[2][2].run = 3
    /\ \A a \in {<<1, 1>>, <<2, 1>>, <<2, 2>>} : aCalls[a] = 1

Running == {"loop", "called", "saving", "saved", "finished"}

\* C29: in every run, whatever stopped the runs before it and wherever, each
\* artwork that a completed save has written is in the loaded dataset, and
\* so it is skipped.
C29_Durable ==
    aPc \in Running => \A a \in aSaved : a[2] <= Len(aMem[a[1]])

(***************************************************************************)
(* Claim about the geocoding cache (specification SpecGeo).                *)
(***************************************************************************)
\* C30: once geocode_location has returned for a location that is not
\* blank, the cache holds under the stripped location the value it
\* returned; a call for a location that was cached already returns the
\* cached value and issues no request; and no call changes an entry that
\* was in the cache before it.
C30_CacheStable ==
    gCalls >= 1 =>
        /\ \A k \in GeoKeys : gPrev[k].has => gCache[k] = gPrev[k]
        /\ gLast.key # "" =>
              /\ gCache[gLast.key].has
              /\ gCache[gLast.key].val = gLast.ret
              /\ gPrev[gLast.key].has =>
                    gLast.reqs = 0 /\ gLast.ret = gPrev[gLast.key].val

C30_Witness ==
    /\ gCalls = 2 /\ gLast.s = " Paris, France " /\ gLast.key = "Paris, France"
    /\ gPrev["Paris, France"].has /\ gPrev["Paris, France"].val.none
    /\ gLast.ret.none /\ gLast.reqs = 0 /\ gReqs = 2

====
